---- MODULE Spec2Model ----
(***************************************************************************)
(* Model of the metashrew KeyDB synchronizer.                              *)
(*                                                                         *)
(*   keydb/src/main.rs            the sync loop (MetashrewKeyDBSync), the  *)
(*                                reorg resolver (best_height) and the     *)
(*                                adapter the binary links                 *)
(*   dynamodb-runtime/src/lib.rs  the resilient, namespacing adapter       *)
(*                                                                         *)
(* Byte strings are sequences of numbers 0..255, text is a sequence of     *)
(* one-character strings or of string tokens, Option<T> is a sequence of   *)
(* length 0 (None) or 1 (Some).                                            *)
(***************************************************************************)
EXTENDS Integers, Sequences, FiniteSets, TLC

\* ------------------------------------------------------------------ bounds
MaxHeight == 2      \* highest height the loop is followed to
MaxTip == 7         \* highest remote block count
MaxReorgs == 1      \* reorganisations of the remote chain
MaxRestarts == 1    \* restarts of the process after it died
MaxStart == 1       \* highest configured --start-block
MaxFails == 2       \* store operations that fail before the store recovers
MaxTipLen == 5      \* longest value held under the tip-height key

\* --------------------------------------------------------------- constants
ReorgDepth == 6     \* main.rs:277  `tip - 6`
Half == 65536       \* a u32 is kept as two 16-bit halves <<high, low>>

VARIABLES
    store,          \* the key-value service: storage key -> bytes
    count,          \* remote chain: getblockcount
    chain,          \* remote chain: height -> generation of the block there
    reorgs,         \* reorganisations so far
    pc,             \* position of the sync process
    cause,          \* why the process died
    restarts,       \* restarts so far
    start_block,    \* MetashrewKeyDBSync.start_block
    i,              \* run(): let mut i
    best,           \* run(): let best
    HEIGHT,         \* static mut _HEIGHT
    tip,            \* best_height(): let tip
    rbest,          \* best_height(): let mut best
    blockhash,      \* pull_block(): let blockhash
    ctx,            \* runtime.context: block, height
    attempt,        \* which runtime.run() of the iteration: 1 or 2
    batch,          \* the RedisBatch handed to write
    wres,           \* write(): let result
    rres,           \* result of runtime.run()
    hist,           \* history of the run, read by the properties only
    tipRead,        \* the tip-height read that has just returned
    LABEL,          \* lib.rs: static mut _LABEL
    adapter,        \* lib.rs: the RedisRuntimeAdapter values, one per clone
    conns,          \* lib.rs: connections opened so far
    failsLeft,      \* store operations that are still to fail
    model           \* what the callers of the lib.rs adapter have stored

syncVars == <<store, count, chain, reorgs, pc, cause, restarts, start_block, i,
              best, HEIGHT, tip, rbest, blockhash, ctx, attempt, batch, wres,
              rres, hist, tipRead>>

adapterVars == <<LABEL, adapter, conns, failsLeft, model>>

vars == <<syncVars, adapterVars>>

\* ---------------------------------------------------------------- encoding
None == <<>>
Some(v) == <<v>>

DigitChars == <<"0", "1", "2", "3", "4", "5", "6", "7", "8", "9">>
HexChars == <<"0", "1", "2", "3", "4", "5", "6", "7", "8", "9",
              "a", "b", "c", "d", "e", "f">>

\* u32::to_string
RECURSIVE to_string(_)
to_string(n) ==
    IF n < 10 THEN <<DigitChars[n + 1]>>
    ELSE to_string(n \div 10) \o <<DigitChars[(n % 10) + 1]>>

\* u32::to_le_bytes
to_le_bytes(n) ==
    <<n % 256, (n \div 256) % 256, (n \div 65536) % 256, (n \div 16777216) % 256>>

from_be_bytes(b) == b[4] + 256 * b[3] + 65536 * b[2] + 16777216 * b[1]

\* u32::from_le_bytes on a 4-byte slice
from_le_bytes(b) == b[1] + 256 * b[2] + 65536 * b[3] + 16777216 * b[4]

HexVal(c) == (CHOOSE k \in 1..16 : HexChars[k] = c) - 1

\* hex::decode
hex_decode(s) ==
    [k \in 1..(Len(s) \div 2) |-> 16 * HexVal(s[2 * k - 1]) + HexVal(s[2 * k])]

\* hex::encode
hex_encode(b) ==
    [k \in 1..(2 * Len(b)) |->
        IF k % 2 = 1 THEN HexChars[(b[(k + 1) \div 2] \div 16) + 1]
        ELSE HexChars[(b[k \div 2] % 16) + 1]]

TIP_HEIGHT_KEY == <<"/__INTERNAL/tip-height">>
HEIGHT_TO_HASH == <<"/__INTERNAL/height-to-hash/">>

\* main.rs to_redis_args: the bytes unchanged
to_redis_args(v) == v

\* the key get_blockhash and pull_block build for a height
HashKey(n) == HEIGHT_TO_HASH \o to_string(n)

\* ------------------------------------------------------------------- store
StoreGet(s, k) == IF k \in DOMAIN s THEN Some(s[k]) ELSE None

StoreSet(s, k, v) == [x \in (DOMAIN s) \cup {k} |-> IF x = k THEN v ELSE s[x]]

\* a pipeline of SET commands, applied in order
RECURSIVE StorePipe(_, _)
StorePipe(s, cmds) ==
    IF cmds = <<>> THEN s
    ELSE StorePipe(StoreSet(s, cmds[1][1], cmds[1][2]), Tail(cmds))

\* ------------------------------------------------------------ remote chain
\* the hex text of the hash of the block of generation g at height h
HashHexOf(g, h) == <<HexChars[g + 1], HexChars[h + 1]>>

\* getblockhash: the hex text of the hash at height h
RemoteHashHex(h) == HashHexOf(chain[h], h)

\* getblock: the hex text of the raw block with the given hash
RemoteBlockHex(hashHex) == hashHex \o <<"b", "b">>

\* hist: what the run has done so far
\*   lookups, rcalls   ledger lookups and getblockhash calls of this resolve
\*   rstat, mismatch   how this resolve ended; whether it saw differing hashes
\*   runs, fails       runtime.run() calls of this iteration, and those that failed
\*   resets            refresh_memory() calls of this iteration
\*   last              the height of the latest runtime.run() call
\*   lastCommitted     the height of the latest block whose write returned Ok
\*   writeIssued       the engine called write in this iteration
\*   tipAtStart        the tip height the iteration started from
\*   inWrite, wTipBefore, wHadBatch, wNewTip
\*                     a write is under way; the tip record and whether the
\*                     batch's values were in the store when it began; the
\*                     tip record it is to persist
NoHist == [lookups |-> 0, rcalls |-> 0, rstat |-> "none", mismatch |-> FALSE,
           runs |-> 0, fails |-> 0, resets |-> 0, last |-> None,
           lastCommitted |-> None, writeIssued |-> FALSE, tipAtStart |-> None,
           wTipBefore |-> None, wHadBatch |-> FALSE, wNewTip |-> None,
           inWrite |-> FALSE]

\* no tip-height read has just returned
NoRead == [by |-> "none", err |-> FALSE, val |-> 0]

\* the two roles that hold an adapter: the loop's, and a clone of it
Clones == {"loop", "ledger"}

NoOp == [name |-> "none", key |-> <<>>, value |-> <<>>, pipe |-> <<>>]
NoRet == [kind |-> "none", val |-> None]

\* no lib.rs adapter in use
AdapterUnused ==
    /\ LABEL = None
    /\ adapter = [c \in Clones |->
                    [pc |-> "none", conn |-> 0, height |-> 0, op |-> NoOp,
                     ret |-> NoRet, tries |-> 0]]
    /\ conns = 0
    /\ failsLeft = 0
    /\ model = <<>>

Init ==
    /\ AdapterUnused
    /\ store = <<>>
    /\ count \in (ReorgDepth - 1)..MaxTip
    /\ chain = [h \in 0..MaxHeight |-> 0]
    /\ reorgs = 0
    /\ pc = "query_height"
    /\ cause = "none"
    /\ restarts = 0
    /\ start_block \in 0..MaxStart
    /\ i = 0
    /\ best = 0
    /\ HEIGHT = 0
    /\ tip = 0
    /\ rbest = 0
    /\ blockhash = <<>>
    /\ ctx = [block |-> <<>>, height |-> 0]
    /\ attempt = 1
    /\ batch = <<>>
    /\ wres = "none"
    /\ rres = "none"
    /\ hist = NoHist
    /\ tipRead = NoRead

\* ------------------------------------------------------------ environment
\* The chain is observed only by best_height, walk and pull_block (the block
\* count) and by walk and pull_hash (the hashes); a change at any other
\* moment is the same change made just before the next observation, so the
\* chain moves at those positions.
\* the remote chain mines a block
Mine ==
    /\ pc \in {"resolve", "walk", "pull_block"}
    /\ count < MaxTip
    /\ count' = count + 1
    /\ UNCHANGED <<store, chain, reorgs, restarts, start_block, pc, cause, i,
                 best, HEIGHT, tip, rbest, blockhash, ctx, attempt, batch, wres,
                 rres, hist, tipRead, LABEL, adapter, conns, failsLeft, model>>

\* the remote chain replaces its blocks from height h upwards
Reorg ==
    /\ pc \in {"walk", "pull_hash"}
    /\ reorgs < MaxReorgs
    /\ \E h \in 0..MaxHeight :
          /\ h <= count
          /\ chain' = [x \in DOMAIN chain |->
                          IF x >= h THEN reorgs + 1 ELSE chain[x]]
    /\ reorgs' = reorgs + 1
    /\ UNCHANGED <<store, count, restarts, start_block, pc, cause, i, best,
                 HEIGHT, tip, rbest, blockhash, ctx, attempt, batch, wres, rres,
                 hist, tipRead, LABEL, adapter, conns, failsLeft, model>>

\* ------------------------------------------------------- process lifecycle
\* what stays known of a write that was under way when the process ended
\* and of the runs of the iteration it ended in
DeadHist(h) ==
    [NoHist EXCEPT !.inWrite = h.inWrite, !.wTipBefore = h.wTipBefore,
                   !.wHadBatch = h.wHadBatch, !.wNewTip = h.wNewTip,
                   !.runs = h.runs, !.fails = h.fails, !.resets = h.resets]

\* the process ends (a panic, or a kill from outside); the store stays.
\* i and _HEIGHT keep the values the process ended with.
Die(why) ==
    /\ pc' = "dead"
    /\ cause' = why
    /\ best' = 0
    /\ tip' = 0
    /\ rbest' = 0
    /\ blockhash' = <<>>
    /\ ctx' = [block |-> <<>>, height |-> 0]
    /\ attempt' = 1
    /\ batch' = IF hist.inWrite THEN batch ELSE <<>>
    /\ wres' = "none"
    /\ rres' = "none"
    /\ hist' = DeadHist(hist)
    /\ tipRead' = NoRead

Crash ==
    /\ pc # "dead"
    /\ Die("killed")
    /\ UNCHANGED <<store, count, chain, reorgs, restarts, start_block, i, HEIGHT,
                 LABEL, adapter, conns, failsLeft, model>>

\* main(): a new process on the same store; statics start over
Restart ==
    /\ pc = "dead"
    /\ restarts < MaxRestarts
    /\ restarts' = restarts + 1
    /\ pc' = "query_height"
    /\ cause' = "none"
    /\ i' = 0
    /\ HEIGHT' = 0
    /\ batch' = <<>>
    /\ hist' = NoHist
    /\ tipRead' = NoRead
    /\ UNCHANGED <<store, count, chain, reorgs, start_block, best, tip, rbest,
                 blockhash, ctx, attempt, wres, rres, LABEL, adapter, conns,
                 failsLeft, model>>

\* ----------------------------------------------------------- query_height
\* the persisted tip height, when the record holds one
PersistedTip(s) ==
    IF TIP_HEIGHT_KEY \in DOMAIN s /\ Len(s[TIP_HEIGHT_KEY]) = 4
    THEN Some(from_le_bytes(s[TIP_HEIGHT_KEY]))
    ELSE None

\* what `connection.get::<Vec<u8>>` yields: a missing key reads as no bytes
GetBytes(s, k) == IF k \in DOMAIN s THEN s[k] ELSE <<>>

query_height ==
    /\ pc = "query_height"
    /\ \/ \* Err(_) => return Ok(self.start_block)
          /\ i' = start_block
          /\ tipRead' = [by |-> "main", err |-> TRUE, val |-> start_block]
          /\ pc' = "resolve"
          /\ UNCHANGED <<store, count, chain, reorgs, restarts, start_block,
                       cause, best, HEIGHT, tip, rbest, blockhash, ctx, attempt,
                       batch, wres, rres, hist, LABEL, adapter, conns,
                       failsLeft, model>>
       \/ \* Ok(v), empty
          /\ Len(GetBytes(store, TIP_HEIGHT_KEY)) = 0
          /\ i' = start_block
          /\ tipRead' = [by |-> "main", err |-> FALSE, val |-> start_block]
          /\ pc' = "resolve"
          /\ UNCHANGED <<store, count, chain, reorgs, restarts, start_block,
                       cause, best, HEIGHT, tip, rbest, blockhash, ctx, attempt,
                       batch, wres, rres, hist, LABEL, adapter, conns,
                       failsLeft, model>>
       \/ \* Ok(v), four bytes
          /\ Len(GetBytes(store, TIP_HEIGHT_KEY)) = 4
          /\ i' = from_le_bytes(GetBytes(store, TIP_HEIGHT_KEY))
          /\ tipRead' = [by |-> "main", err |-> FALSE,
                         val |-> from_le_bytes(GetBytes(store, TIP_HEIGHT_KEY))]
          /\ pc' = "resolve"
          /\ UNCHANGED <<store, count, chain, reorgs, restarts, start_block,
                       cause, best, HEIGHT, tip, rbest, blockhash, ctx, attempt,
                       batch, wres, rres, hist, LABEL, adapter, conns,
                       failsLeft, model>>
       \/ \* Ok(v), any other length: try_into().unwrap() panics
          /\ Len(GetBytes(store, TIP_HEIGHT_KEY)) \notin {0, 4}
          /\ Die("panic_tip")
          /\ UNCHANGED <<store, count, chain, reorgs, restarts, start_block, i,
                       HEIGHT, LABEL, adapter, conns, failsLeft, model>>

\* ------------------------------------------------------------ best_height
\* `tip - 6` on u32 in a build without overflow checks: the difference
\* modulo 2^32, as <<high half, low half>>
Sub32(a, b) ==
    IF a >= b THEN <<(a - b) \div Half, (a - b) % Half>>
    ELSE <<Half - 1 - ((b - a - 1) \div Half), Half - 1 - ((b - a - 1) % Half)>>

\* n >= w on u32, w in halves
GeqU32(n, w) ==
    \/ n \div Half > w[1]
    \/ n \div Half = w[1] /\ n % Half >= w[2]

\* the threshold one too low: `tip - 7`
InCheckedRegion_low(b, t) == GeqU32(b, Sub32(t, ReorgDepth + 1))

\* `if best >= tip - 6`
InCheckedRegion(b, t) == GeqU32(b, Sub32(t, ReorgDepth))

\* get_blockhash: the ledger's record for a height
get_blockhash(s, n) == StoreGet(s, to_redis_args(HashKey(n)))

\* fetch_blockhash: the remote hash at a height, decoded
fetch_blockhash(n) == hex_decode(RemoteHashHex(n))

\* run(): `match self.best_height(i).await { Ok(v) => v, Err(_) => i }`
BestOf(ok, v, cand) == IF ok THEN v ELSE cand

\* the resolver returns to run(), which goes on to pull_block(best)
Resolved(ok, v, h) ==
    /\ best' = BestOf(ok, v, i)
    /\ pc' = "pull_block"
    /\ hist' = h

IterStart(h) ==
    [h EXCEPT !.lookups = 0, !.rcalls = 0, !.rstat = "none", !.mismatch = FALSE,
              !.runs = 0, !.fails = 0, !.resets = 0,
              !.writeIssued = FALSE,
              !.tipAtStart = IF PersistedTip(store) = None
                             THEN Some(start_block) ELSE PersistedTip(store)]

\* best_height up to the test of the region: getblockcount, then `tip - 6`
best_height ==
    /\ pc = "resolve"
    /\ i <= MaxHeight
    /\ \/ \* the getblockcount call fails: `?` returns Err
          /\ Resolved(FALSE, 0, [IterStart(hist) EXCEPT !.rstat = "err_rpc"])
          /\ tipRead' = NoRead
          /\ UNCHANGED <<store, count, chain, reorgs, restarts, start_block,
                       cause, i, HEIGHT, tip, rbest, blockhash, ctx, attempt,
                       batch, wres, rres, LABEL, adapter, conns, failsLeft,
                       model>>
       \/ \* tip < 6 with overflow checks: the subtraction panics
          /\ count < ReorgDepth
          /\ Die("panic_overflow")
          /\ UNCHANGED <<store, count, chain, reorgs, restarts, start_block, i,
                       HEIGHT, LABEL, adapter, conns, failsLeft, model>>
       \/ \* the region is entered
          /\ InCheckedRegion(i, count)
          /\ tip' = count
          /\ rbest' = i
          /\ pc' = "walk"
          /\ hist' = IterStart(hist)
          /\ tipRead' = NoRead
          /\ UNCHANGED <<store, count, chain, reorgs, restarts, start_block,
                       cause, i, best, HEIGHT, blockhash, ctx, attempt, batch,
                       wres, rres, LABEL, adapter, conns, failsLeft, model>>
       \/ \* below the region: Ok(best) at once
          /\ ~InCheckedRegion(i, count)
          /\ tip' = count
          /\ rbest' = i
          /\ Resolved(TRUE, i, [IterStart(hist) EXCEPT !.rstat = "fast"])
          /\ tipRead' = NoRead
          /\ UNCHANGED <<store, count, chain, reorgs, restarts, start_block,
                       cause, i, HEIGHT, blockhash, ctx, attempt, batch, wres,
                       rres, LABEL, adapter, conns, failsLeft, model>>

\* one turn of the loop of best_height
walk ==
    /\ pc = "walk"
    /\ \/ \* if best == 0 { break }
          /\ rbest = 0
          /\ Resolved(TRUE, rbest, [hist EXCEPT !.rstat = "walk_ok"])
          /\ UNCHANGED <<store, count, chain, reorgs, restarts, start_block,
                       cause, i, HEIGHT, tip, rbest, blockhash, ctx, attempt,
                       batch, wres, rres, tipRead, LABEL, adapter, conns,
                       failsLeft, model>>
       \/ \* the store fails under get_blockhash: unwrap panics
          /\ rbest # 0
          /\ Die("panic")
          /\ UNCHANGED <<store, count, chain, reorgs, restarts, start_block, i,
                       HEIGHT, LABEL, adapter, conns, failsLeft, model>>
       \/ \* no record: ok_or(..)? returns Err
          /\ rbest # 0
          /\ get_blockhash(store, rbest) = None
          /\ Resolved(FALSE, 0, [hist EXCEPT !.lookups = @ + 1,
                                             !.rstat = "err_gap"])
          /\ UNCHANGED <<store, count, chain, reorgs, restarts, start_block,
                       cause, i, HEIGHT, tip, rbest, blockhash, ctx, attempt,
                       batch, wres, rres, tipRead, LABEL, adapter, conns,
                       failsLeft, model>>
       \/ \* fetch_blockhash fails (the call, or no block at that height)
          /\ rbest # 0
          /\ get_blockhash(store, rbest) # None
          /\ Resolved(FALSE, 0, [hist EXCEPT !.lookups = @ + 1, !.rcalls = @ + 1,
                                             !.rstat = "err_rpc"])
          /\ UNCHANGED <<store, count, chain, reorgs, restarts, start_block,
                       cause, i, HEIGHT, tip, rbest, blockhash, ctx, attempt,
                       batch, wres, rres, tipRead, LABEL, adapter, conns,
                       failsLeft, model>>
       \/ \* the hashes are equal: break
          /\ rbest # 0
          /\ rbest <= count
          /\ get_blockhash(store, rbest) = Some(fetch_blockhash(rbest))
          /\ Resolved(TRUE, rbest, [hist EXCEPT !.lookups = @ + 1, !.rcalls = @ + 1,
                                                !.rstat = "walk_ok"])
          /\ UNCHANGED <<store, count, chain, reorgs, restarts, start_block,
                       cause, i, HEIGHT, tip, rbest, blockhash, ctx, attempt,
                       batch, wres, rres, tipRead, LABEL, adapter, conns,
                       failsLeft, model>>
       \/ \* the hashes differ: best = best - 1
          /\ rbest # 0
          /\ rbest <= count
          /\ get_blockhash(store, rbest) # None
          /\ get_blockhash(store, rbest) # Some(fetch_blockhash(rbest))
          /\ rbest' = rbest - 1
          /\ hist' = [hist EXCEPT !.lookups = @ + 1, !.rcalls = @ + 1,
                                  !.mismatch = TRUE]
          /\ UNCHANGED <<store, count, chain, reorgs, restarts, start_block, pc,
                       cause, i, best, HEIGHT, tip, blockhash, ctx, attempt,
                       batch, wres, rres, tipRead, LABEL, adapter, conns,
                       failsLeft, model>>

\* ------------------------------------------------------------- pull_block
\* the loop on fetch_blockcount; `block_number > count` sleeps and polls again
pull_block ==
    /\ pc = "pull_block"
    /\ \/ \* fetch_blockcount fails: pull_block returns Err, run() unwraps it
          /\ Die("panic")
          /\ UNCHANGED <<store, count, chain, reorgs, restarts, start_block, i,
                       HEIGHT, LABEL, adapter, conns, failsLeft, model>>
       \/ /\ ~(best > count)
          /\ pc' = "pull_hash"
          /\ UNCHANGED <<store, count, chain, reorgs, restarts, start_block,
                       cause, i, best, HEIGHT, tip, rbest, blockhash, ctx,
                       attempt, batch, wres, rres, hist, tipRead, LABEL,
                       adapter, conns, failsLeft, model>>

\* fetch_blockhash(block_number).await.unwrap()
pull_hash ==
    /\ pc = "pull_hash"
    /\ \/ /\ Die("panic")
          /\ UNCHANGED <<store, count, chain, reorgs, restarts, start_block, i,
                       HEIGHT, LABEL, adapter, conns, failsLeft, model>>
       \/ /\ blockhash' = fetch_blockhash(best)
          /\ pc' = "pull_record"
          /\ UNCHANGED <<store, count, chain, reorgs, restarts, start_block,
                       cause, i, best, HEIGHT, tip, rbest, ctx, attempt, batch,
                       wres, rres, hist, tipRead, LABEL, adapter, conns,
                       failsLeft, model>>

\* pull_block without the db.put of the height-to-hash record
pull_record_skip ==
    /\ pc = "pull_record"
    /\ \/ /\ Die("panic")
          /\ UNCHANGED <<store, count, chain, reorgs, restarts, start_block, i,
                       HEIGHT, LABEL, adapter, conns, failsLeft, model>>
       \/ /\ pc' = "pull_get"
          /\ UNCHANGED <<store, count, chain, reorgs, restarts, start_block,
                       cause, i, best, HEIGHT, tip, rbest, blockhash, ctx,
                       attempt, batch, wres, rres, hist, tipRead, LABEL,
                       adapter, conns, failsLeft, model>>

\* db.put(HEIGHT_TO_HASH + block_number, blockhash).unwrap()
pull_record ==
    /\ pc = "pull_record"
    /\ \/ /\ Die("panic")
          /\ UNCHANGED <<store, count, chain, reorgs, restarts, start_block, i,
                       HEIGHT, LABEL, adapter, conns, failsLeft, model>>
       \/ /\ store' = StoreSet(store, to_redis_args(HashKey(best)),
                               to_redis_args(blockhash))
          /\ pc' = "pull_get"
          /\ UNCHANGED <<count, chain, reorgs, restarts, start_block, cause, i,
                       best, HEIGHT, tip, rbest, blockhash, ctx, attempt, batch,
                       wres, rres, hist, tipRead, LABEL, adapter, conns,
                       failsLeft, model>>

\* getblock by the hex of the recorded hash; run() stores block and height
pull_get ==
    /\ pc = "pull_get"
    /\ \/ /\ Die("panic")
          /\ UNCHANGED <<store, count, chain, reorgs, restarts, start_block, i,
                       HEIGHT, LABEL, adapter, conns, failsLeft, model>>
       \/ /\ ctx' = [block |-> hex_decode(RemoteBlockHex(hex_encode(blockhash))),
                     height |-> best]
          /\ attempt' = 1
          /\ pc' = "run"
          /\ UNCHANGED <<store, count, chain, reorgs, restarts, start_block,
                       cause, i, best, HEIGHT, tip, rbest, blockhash, batch,
                       wres, rres, hist, tipRead, LABEL, adapter, conns,
                       failsLeft, model>>

\* -------------------------------------------------------------------- run
\* the mutations the indexing program stages for a block: here one record,
\* the latest block it has indexed
EngineBatch(c) == <<<<<<"/index/latest">>, to_le_bytes(c.height) \o c.block>>>>

BatchPresent(s, b) == \A k \in 1..Len(b) : StoreGet(s, b[k][1]) = Some(b[k][2])

\* write(): `(unsafe { _HEIGHT }).to_le_bytes().to_vec()`
HeightBytes(h) == to_le_bytes(h)

Ran(h) == [h EXCEPT !.runs = @ + 1, !.last = Some(ctx.height)]

\* runtime.run(): the indexing program runs on context.block and
\* context.height; it traps, or completes without flushing, or flushes
\* its batch through db.write
EngineRun ==
    /\ pc = "run"
    /\ \/ /\ rres' = "err"
          /\ pc' = "run_ret"
          /\ hist' = [Ran(hist) EXCEPT !.fails = @ + 1]
          /\ UNCHANGED <<store, count, chain, reorgs, restarts, start_block,
                       cause, i, best, HEIGHT, tip, rbest, blockhash, ctx,
                       attempt, batch, wres, tipRead, LABEL, adapter, conns,
                       failsLeft, model>>
       \/ /\ rres' = "ok"
          /\ pc' = "run_ret"
          /\ hist' = Ran(hist)
          /\ UNCHANGED <<store, count, chain, reorgs, restarts, start_block,
                       cause, i, best, HEIGHT, tip, rbest, blockhash, ctx,
                       attempt, batch, wres, tipRead, LABEL, adapter, conns,
                       failsLeft, model>>
       \/ /\ batch' = EngineBatch(ctx)
          /\ pc' = "write"
          /\ hist' = [Ran(hist) EXCEPT
                        !.writeIssued = TRUE, !.inWrite = TRUE,
                        !.wTipBefore = StoreGet(store, TIP_HEIGHT_KEY),
                        !.wNewTip = Some(HeightBytes(HEIGHT)),
                        !.wHadBatch = BatchPresent(store, EngineBatch(ctx))]
          /\ UNCHANGED <<store, count, chain, reorgs, restarts, start_block,
                       cause, i, best, HEIGHT, tip, rbest, blockhash, ctx,
                       attempt, wres, rres, tipRead, LABEL, adapter, conns,
                       failsLeft, model>>

\* write(): connect().unwrap(), then SET of the tip height on that connection
write_set_tip ==
    /\ pc = "write"
    /\ \/ /\ Die("panic")
          /\ UNCHANGED <<store, count, chain, reorgs, restarts, start_block, i,
                       HEIGHT, LABEL, adapter, conns, failsLeft, model>>
       \/ /\ store' = StoreSet(store, to_redis_args(TIP_HEIGHT_KEY),
                               to_redis_args(HeightBytes(HEIGHT)))
          /\ pc' = "w_query"
          /\ UNCHANGED <<count, chain, reorgs, restarts, start_block, cause, i,
                       best, HEIGHT, tip, rbest, blockhash, ctx, attempt, batch,
                       wres, rres, hist, tipRead, LABEL, adapter, conns,
                       failsLeft, model>>

\* write(): batch.0.query(&mut connection)
write_query ==
    /\ pc = "w_query"
    /\ \/ /\ wres' = "err"
          /\ pc' = "w_reset"
          /\ UNCHANGED <<store, count, chain, reorgs, restarts, start_block,
                       cause, i, best, HEIGHT, tip, rbest, blockhash, ctx,
                       attempt, batch, rres, hist, tipRead, LABEL, adapter,
                       conns, failsLeft, model>>
       \/ /\ wres' = "ok"
          /\ store' = StorePipe(store, batch)
          /\ pc' = "w_reset"
          /\ UNCHANGED <<count, chain, reorgs, restarts, start_block, cause, i,
                       best, HEIGHT, tip, rbest, blockhash, ctx, attempt, batch,
                       rres, hist, tipRead, LABEL, adapter, conns, failsLeft,
                       model>>

\* write(): reset_connection(), then `result` goes back to the engine,
\* whose run fails when its flush failed
write_reset ==
    /\ pc = "w_reset"
    /\ \/ /\ Die("panic")
          /\ UNCHANGED <<store, count, chain, reorgs, restarts, start_block, i,
                       HEIGHT, LABEL, adapter, conns, failsLeft, model>>
       \/ /\ rres' = wres
          /\ wres' = "none"
          /\ batch' = <<>>
          /\ pc' = "run_ret"
          /\ hist' = [hist EXCEPT
                        !.inWrite = FALSE, !.wTipBefore = None, !.wHadBatch = FALSE,
                        !.wNewTip = None,
                        !.fails = IF wres = "ok" THEN @ ELSE @ + 1,
                        !.lastCommitted = IF wres = "ok" THEN Some(ctx.height) ELSE @]
          /\ UNCHANGED <<store, count, chain, reorgs, restarts, start_block,
                       cause, i, best, HEIGHT, tip, rbest, blockhash, ctx,
                       attempt, tipRead, LABEL, adapter, conns, failsLeft,
                       model>>

\* the policy with the second failure swallowed
run_ret_swallow ==
    /\ pc = "run_ret"
    /\ \/ /\ rres = "ok"
          /\ pc' = "advance"
          /\ rres' = "none"
          /\ UNCHANGED <<store, count, chain, reorgs, restarts, start_block,
                       cause, i, best, HEIGHT, tip, rbest, blockhash, ctx,
                       attempt, batch, wres, hist, tipRead, LABEL, adapter,
                       conns, failsLeft, model>>
       \/ /\ rres = "err"
          /\ attempt = 1
          /\ attempt' = 2
          /\ pc' = "run"
          /\ rres' = "none"
          /\ hist' = [hist EXCEPT !.resets = @ + 1]
          /\ UNCHANGED <<store, count, chain, reorgs, restarts, start_block,
                       cause, i, best, HEIGHT, tip, rbest, blockhash, ctx,
                       batch, wres, tipRead, LABEL, adapter, conns, failsLeft,
                       model>>
       \/ /\ rres = "err"
          /\ attempt = 2
          /\ pc' = "advance"
          /\ rres' = "none"
          /\ UNCHANGED <<store, count, chain, reorgs, restarts, start_block,
                       cause, i, best, HEIGHT, tip, rbest, blockhash, ctx,
                       attempt, batch, wres, hist, tipRead, LABEL, adapter,
                       conns, failsLeft, model>>

\* run(): the failure policy around runtime.run()
run_ret ==
    /\ pc = "run_ret"
    /\ \/ /\ rres = "ok"
          /\ pc' = "advance"
          /\ rres' = "none"
          /\ UNCHANGED <<store, count, chain, reorgs, restarts, start_block,
                       cause, i, best, HEIGHT, tip, rbest, blockhash, ctx,
                       attempt, batch, wres, hist, tipRead, LABEL, adapter,
                       conns, failsLeft, model>>
       \/ \* refresh_memory(), then the second run
          /\ rres = "err"
          /\ attempt = 1
          /\ attempt' = 2
          /\ pc' = "run"
          /\ rres' = "none"
          /\ hist' = [hist EXCEPT !.resets = @ + 1]
          /\ UNCHANGED <<store, count, chain, reorgs, restarts, start_block,
                       cause, i, best, HEIGHT, tip, rbest, blockhash, ctx,
                       batch, wres, tipRead, LABEL, adapter, conns, failsLeft,
                       model>>
       \/ \* panic!("runtime run failed after retry")
          /\ rres = "err"
          /\ attempt = 2
          /\ Die("panic_engine")
          /\ UNCHANGED <<store, count, chain, reorgs, restarts, start_block, i,
                       HEIGHT, LABEL, adapter, conns, failsLeft, model>>

\* i = i + 1; _HEIGHT = i
advance ==
    /\ pc = "advance"
    /\ i' = i + 1
    /\ HEIGHT' = i + 1
    /\ pc' = "resolve"
    /\ UNCHANGED <<store, count, chain, reorgs, restarts, start_block, cause,
                 best, tip, rbest, blockhash, ctx, attempt, batch, wres, rres,
                 hist, tipRead, LABEL, adapter, conns, failsLeft, model>>

\* ------------------------------------- dynamodb-runtime: the lib.rs adapter
RawKeys == {<<"bar">>, <<"foo", "://", "bar">>}
Values == {<<1>>, <<2>>}
Batches == {<<<<(<<"bar">>), <<2>>>>>>}

\* set_label: _LABEL = Some(s + "://")
set_label(s) == Some(s \o <<"://">>)

has_label == LABEL # None
get_label == LABEL[1]

\* lib.rs to_redis_key: the label, when set, before the key
to_redis_key(v) == IF has_label THEN get_label \o v ELSE to_redis_args(v)

\* to_labeled_key
to_labeled_key(key) == IF has_label THEN get_label \o key ELSE key

\* RedisBatch::put on every pair of a batch: SET to_redis_key(k) v
RECURSIVE BatchPipe(_)
BatchPipe(b) ==
    IF b = <<>> THEN <<>>
    ELSE <<<<to_redis_key(b[1][1]), to_redis_args(b[1][2])>>>> \o BatchPipe(Tail(b))

WritePipe_bare(b, height) == BatchPipe(b)

\* write(): the batch with the tip-height put added, `self.2 + 1`
WritePipe(b, height) ==
    BatchPipe(b \o <<<<TIP_HEIGHT_KEY, to_le_bytes(height + 1)>>>>)

RECURSIVE ModelPut(_, _)
ModelPut(m, b) ==
    IF b = <<>> THEN m
    ELSE ModelPut(StoreSet(m, b[1][1], [value |-> b[1][2], via |-> "write"]),
                  Tail(b))

StoreDel(s, k) == [x \in (DOMAIN s) \ {k} |-> s[x]]

\* RedisRuntimeAdapter::open, and the label set or not before first use
InitAdapter ==
    /\ LABEL \in {None, set_label(<<"foo">>)}
    /\ adapter = [c \in Clones |->
                    IF c = "loop"
                    THEN [pc |-> "idle", conn |-> 1, height |-> 0, op |-> NoOp,
                          ret |-> NoRet, tries |-> 0]
                    ELSE [pc |-> "none", conn |-> 0, height |-> 0, op |-> NoOp,
                          ret |-> NoRet, tries |-> 0]]
    /\ conns = 1
    /\ failsLeft \in 0..MaxFails
    /\ model = <<>>
    /\ store = <<>>
    /\ count = 0
    /\ chain = [h \in 0..MaxHeight |-> 0]
    /\ reorgs = 0
    /\ pc = "dead"
    /\ cause = "none"
    /\ restarts = 0
    /\ start_block = 0
    /\ i = 0
    /\ best = 0
    /\ HEIGHT = 0
    /\ tip = 0
    /\ rbest = 0
    /\ blockhash = <<>>
    /\ ctx = [block |-> <<>>, height |-> 0]
    /\ attempt = 1
    /\ batch = <<>>
    /\ wres = "none"
    /\ rres = "none"
    /\ hist = NoHist
    /\ tipRead = NoRead

\* impl Clone: the same uri, the same Arc, the same counter
Clone ==
    \E c \in Clones, d \in Clones :
        /\ adapter[c].pc = "idle"
        /\ adapter[d].pc = "none"
        /\ adapter' = [adapter EXCEPT ![d] =
                         [pc |-> "idle", conn |-> adapter[c].conn,
                          height |-> adapter[c].height, op |-> NoOp,
                          ret |-> NoRet, tries |-> 0]]
        /\ UNCHANGED <<store, count, chain, reorgs, restarts, start_block, pc,
                     cause, i, best, HEIGHT, tip, rbest, blockhash, ctx,
                     attempt, batch, wres, rres, hist, tipRead, LABEL, conns,
                     failsLeft, model>>

\* what a caller may ask of its adapter: the loop's adapter serves the engine
\* (get, put, delete, write), the ledger clone serves the resolver's reads
Requests(c) ==
    [name : {"get"}, key : RawKeys, value : {<<>>}, pipe : {<<>>}]
    \cup (IF c # "loop" THEN {}
          ELSE [name : {"delete"}, key : RawKeys, value : {<<>>}, pipe : {<<>>}]
               \cup [name : {"put"}, key : RawKeys, value : Values, pipe : {<<>>}]
               \cup {[name |-> "write", key |-> <<>>, value |-> b,
                      pipe |-> WritePipe(b, adapter[c].height)] : b \in Batches})

\* a caller invokes get, put, delete or write on its adapter
Call ==
    \E c \in Clones :
        /\ adapter[c].pc = "idle"
        /\ \E o \in Requests(c) :
              adapter' = [adapter EXCEPT ![c].pc = "try", ![c].op = o,
                                         ![c].ret = NoRet, ![c].tries = 0]
        /\ UNCHANGED <<store, count, chain, reorgs, restarts, start_block, pc,
                     cause, i, best, HEIGHT, tip, rbest, blockhash, ctx,
                     attempt, batch, wres, rres, hist, tipRead, LABEL, conns,
                     failsLeft, model>>

\* a guard that lived on through reset_connection
Holder_through_reset(a) == a.pc \in {"locked", "reset"}

\* the MutexGuard of self.1.lock() is a temporary of the match inside the
\* inner block of the loop: it is held during the store call and the match
\* arms and dropped where that block ends, before self.reset_connection()
Holder(a) == a.pc = "locked"

\* self.1.lock().unwrap(): the mutex of the clone's own Arc
Lock ==
    \E c \in Clones :
        /\ adapter[c].pc = "try"
        /\ \A d \in Clones :
              ~(Holder(adapter[d]) /\ adapter[d].conn = adapter[c].conn)
        /\ adapter' = [adapter EXCEPT ![c].pc = "locked"]
        /\ UNCHANGED <<store, count, chain, reorgs, restarts, start_block, pc,
                     cause, i, best, HEIGHT, tip, rbest, blockhash, ctx,
                     attempt, batch, wres, rres, hist, tipRead, LABEL, conns,
                     failsLeft, model>>

Failed_noreset(a) == [a EXCEPT !.pc = "try", !.tries = 1]

Failed_giveup(a) == [a EXCEPT !.pc = "idle", !.ret = [kind |-> "err", val |-> None]]

\* the Err arm of every method: debug!, the guard dropped, reset_connection
Failed(a) == [a EXCEPT !.pc = "reset", !.tries = 1]

\* the Ok arm: return Ok(v)
Returned(a, v) == [a EXCEPT !.pc = "idle", !.ret = [kind |-> "ok", val |-> v]]

\* one attempt of get under the lock
get ==
    \E c \in Clones :
        /\ adapter[c].pc = "locked"
        /\ adapter[c].op.name = "get"
        /\ \/ /\ failsLeft > 0
              /\ failsLeft' = failsLeft - 1
              /\ adapter' = [adapter EXCEPT ![c] = Failed(@)]
              /\ UNCHANGED <<store, count, chain, reorgs, restarts, start_block,
                           pc, cause, i, best, HEIGHT, tip, rbest, blockhash,
                           ctx, attempt, batch, wres, rres, hist, tipRead,
                           LABEL, conns, model>>
           \/ /\ adapter' = [adapter EXCEPT ![c] =
                    Returned(@, StoreGet(store, to_redis_args(adapter[c].op.key)))]
              /\ UNCHANGED <<store, count, chain, reorgs, restarts, start_block,
                           pc, cause, i, best, HEIGHT, tip, rbest, blockhash,
                           ctx, attempt, batch, wres, rres, hist, tipRead,
                           LABEL, conns, failsLeft, model>>

\* one attempt of put under the lock
put ==
    \E c \in Clones :
        /\ adapter[c].pc = "locked"
        /\ adapter[c].op.name = "put"
        /\ \/ /\ failsLeft > 0
              /\ failsLeft' = failsLeft - 1
              /\ adapter' = [adapter EXCEPT ![c] = Failed(@)]
              /\ UNCHANGED <<store, count, chain, reorgs, restarts, start_block,
                           pc, cause, i, best, HEIGHT, tip, rbest, blockhash,
                           ctx, attempt, batch, wres, rres, hist, tipRead,
                           LABEL, conns, model>>
           \/ /\ store' = StoreSet(store, to_redis_key(adapter[c].op.key),
                                   to_redis_args(adapter[c].op.value))
              /\ model' = StoreSet(model, adapter[c].op.key,
                                   [value |-> adapter[c].op.value, via |-> "put"])
              /\ adapter' = [adapter EXCEPT ![c] = Returned(@, None)]
              /\ UNCHANGED <<count, chain, reorgs, restarts, start_block, pc,
                           cause, i, best, HEIGHT, tip, rbest, blockhash, ctx,
                           attempt, batch, wres, rres, hist, tipRead, LABEL,
                           conns, failsLeft>>

\* one attempt of delete under the lock
delete ==
    \E c \in Clones :
        /\ adapter[c].pc = "locked"
        /\ adapter[c].op.name = "delete"
        /\ \/ /\ failsLeft > 0
              /\ failsLeft' = failsLeft - 1
              /\ adapter' = [adapter EXCEPT ![c] = Failed(@)]
              /\ UNCHANGED <<store, count, chain, reorgs, restarts, start_block,
                           pc, cause, i, best, HEIGHT, tip, rbest, blockhash,
                           ctx, attempt, batch, wres, rres, hist, tipRead,
                           LABEL, conns, model>>
           \/ /\ store' = StoreDel(store, to_redis_args(adapter[c].op.key))
              /\ model' = StoreDel(model, adapter[c].op.key)
              /\ adapter' = [adapter EXCEPT ![c] = Returned(@, None)]
              /\ UNCHANGED <<count, chain, reorgs, restarts, start_block, pc,
                           cause, i, best, HEIGHT, tip, rbest, blockhash, ctx,
                           attempt, batch, wres, rres, hist, tipRead, LABEL,
                           conns, failsLeft>>

\* one attempt of write under the lock: `batch.0.query` submits the whole
\* pipeline; the pipeline is not atomic, so an attempt that fails may have
\* had any number of its first commands applied
write ==
    \E c \in Clones :
        /\ adapter[c].pc = "locked"
        /\ adapter[c].op.name = "write"
        /\ \/ /\ failsLeft > 0
              /\ failsLeft' = failsLeft - 1
              /\ \E n \in 0..Len(adapter[c].op.pipe) :
                    store' = StorePipe(store, SubSeq(adapter[c].op.pipe, 1, n))
              /\ adapter' = [adapter EXCEPT ![c] = Failed(@)]
              /\ UNCHANGED <<count, chain, reorgs, restarts, start_block, pc,
                           cause, i, best, HEIGHT, tip, rbest, blockhash, ctx,
                           attempt, batch, wres, rres, hist, tipRead, LABEL,
                           conns, model>>
           \/ /\ store' = StorePipe(store, adapter[c].op.pipe)
              /\ model' = ModelPut(model, adapter[c].op.value)
              /\ adapter' = [adapter EXCEPT ![c] = Returned(@, None)]
              /\ UNCHANGED <<count, chain, reorgs, restarts, start_block, pc,
                           cause, i, best, HEIGHT, tip, rbest, blockhash, ctx,
                           attempt, batch, wres, rres, hist, tipRead, LABEL,
                           conns, failsLeft>>

\* reset_connection: wait_timeout, then connect() loops on connect_once until
\* it succeeds; self.1 becomes a new Arc<Mutex<Connection>> of this clone
reset_connection ==
    \E c \in Clones :
        /\ adapter[c].pc = "reset"
        /\ \/ /\ failsLeft > 0
              /\ failsLeft' = failsLeft - 1
              /\ UNCHANGED <<store, count, chain, reorgs, restarts, start_block,
                           pc, cause, i, best, HEIGHT, tip, rbest, blockhash,
                           ctx, attempt, batch, wres, rres, hist, tipRead,
                           LABEL, adapter, conns, model>>
           \/ /\ conns' = conns + 1
              /\ adapter' = [adapter EXCEPT ![c].conn = conns + 1, ![c].pc = "try"]
              /\ UNCHANGED <<store, count, chain, reorgs, restarts, start_block,
                           pc, cause, i, best, HEIGHT, tip, rbest, blockhash,
                           ctx, attempt, batch, wres, rres, hist, tipRead,
                           LABEL, failsLeft, model>>

NextAdapter ==
    \/ Clone
    \/ Call
    \/ Lock
    \/ get
    \/ put
    \/ delete
    \/ write
    \/ reset_connection

SpecAdapter == InitAdapter /\ [][NextAdapter]_vars

\* the steps of one clone's call
LockBy(c) == Lock /\ adapter[c].pc = "try" /\ adapter'[c].pc = "locked"

AttemptBy(c) ==
    /\ get \/ put \/ delete \/ write
    /\ adapter[c].pc = "locked"
    /\ adapter'[c].pc # "locked"

ResetBy(c) ==
    /\ reset_connection
    /\ adapter[c].pc = "reset"
    /\ adapter'[c].pc = "try" \/ failsLeft' # failsLeft

\* a call that can take its next step takes it: the thread in the call keeps
\* running, and a lock that keeps being released is acquired in the end
Fairness ==
    \A c \in Clones :
        /\ SF_vars(LockBy(c))
        /\ WF_vars(AttemptBy(c))
        /\ WF_vars(ResetBy(c))

\* no label, and the whole budget of failures: a store that fails fewer
\* operations is the same store failing fewer of them
InitAdapterFair ==
    /\ InitAdapter
    /\ LABEL = None
    /\ failsLeft = MaxFails

SpecAdapterFair == InitAdapterFair /\ [][NextAdapter]_vars /\ Fairness

Next ==
    \/ Mine
    \/ Reorg
    \/ Crash
    \/ query_height
    \/ best_height
    \/ walk
    \/ pull_block
    \/ pull_hash
    \/ pull_record
    \/ pull_get
    \/ EngineRun
    \/ write_set_tip
    \/ write_query
    \/ write_reset
    \/ run_ret
    \/ advance

\* one lifetime of the process, from an empty store
Spec == Init /\ [][Next]_vars

\* the process is started again after it ended
NextRestart ==
    \/ Next
    \/ Restart

SpecRestart == Init /\ [][NextRestart]_vars

\* ------------------------------------------------- the resolver by itself
\* a ledger: for each height no record, or the hash of one generation
LedgerOf(a) ==
    [k \in {HashKey(h) : h \in {x \in DOMAIN a : a[x] >= 0}} |->
        hex_decode(HashHexOf(a[CHOOSE h \in DOMAIN a : HashKey(h) = k],
                             CHOOSE h \in DOMAIN a : HashKey(h) = k))]

\* best_height on any candidate, remote tip, ledger and remote chain
InitResolve ==
    /\ AdapterUnused
    /\ \E a \in [0..MaxHeight -> -1..MaxReorgs] : store = LedgerOf(a)
    /\ count \in 0..(MaxHeight + ReorgDepth + 1)
    /\ chain \in {c \in [0..MaxHeight -> 0..MaxReorgs] :
                    \A h \in 1..MaxHeight : c[h - 1] <= c[h]}
    /\ reorgs = MaxReorgs
    /\ pc = "resolve"
    /\ cause = "none"
    /\ restarts = 0
    /\ start_block = 0
    /\ i \in 0..MaxHeight
    /\ best = 0
    /\ HEIGHT = i
    /\ tip = 0
    /\ rbest = 0
    /\ blockhash = <<>>
    /\ ctx = [block |-> <<>>, height |-> 0]
    /\ attempt = 1
    /\ batch = <<>>
    /\ wres = "none"
    /\ rres = "none"
    /\ hist = NoHist
    /\ tipRead = NoRead

NextResolve ==
    \/ best_height
    \/ walk

SpecResolve == InitResolve /\ [][NextResolve]_vars


\* ------------------------------------------------ the tip-height read alone
\* lib.rs query_height(connection, start_block): the read of the record under
\* to_labeled_key(TIP_HEIGHT_KEY)
query_height_lib ==
    /\ pc = "query_height"
    /\ \/ \* Err(_) => return Ok(start_block)
          /\ tipRead' = [by |-> "lib", err |-> TRUE, val |-> start_block]
          /\ pc' = "tip_read"
          /\ UNCHANGED <<store, count, chain, reorgs, restarts, start_block,
                       cause, i, best, HEIGHT, tip, rbest, blockhash, ctx,
                       attempt, batch, wres, rres, hist, LABEL, adapter, conns,
                       failsLeft, model>>
       \/ \* Ok(v), empty
          /\ Len(GetBytes(store, to_labeled_key(TIP_HEIGHT_KEY))) = 0
          /\ tipRead' = [by |-> "lib", err |-> FALSE, val |-> start_block]
          /\ pc' = "tip_read"
          /\ UNCHANGED <<store, count, chain, reorgs, restarts, start_block,
                       cause, i, best, HEIGHT, tip, rbest, blockhash, ctx,
                       attempt, batch, wres, rres, hist, LABEL, adapter, conns,
                       failsLeft, model>>
       \/ \* Ok(v), four bytes
          /\ Len(GetBytes(store, to_labeled_key(TIP_HEIGHT_KEY))) = 4
          /\ tipRead' = [by |-> "lib", err |-> FALSE,
                         val |-> from_le_bytes(
                                    GetBytes(store, to_labeled_key(TIP_HEIGHT_KEY)))]
          /\ pc' = "tip_read"
          /\ UNCHANGED <<store, count, chain, reorgs, restarts, start_block,
                       cause, i, best, HEIGHT, tip, rbest, blockhash, ctx,
                       attempt, batch, wres, rres, hist, LABEL, adapter, conns,
                       failsLeft, model>>
       \/ \* Ok(v), any other length: try_into().unwrap() panics
          /\ Len(GetBytes(store, to_labeled_key(TIP_HEIGHT_KEY))) \notin {0, 4}
          /\ Die("panic_tip_lib")
          /\ UNCHANGED <<store, count, chain, reorgs, restarts, start_block, i,
                       HEIGHT, LABEL, adapter, conns, failsLeft, model>>

\* the values the tip-height record may hold
TipValues == UNION {[1..n -> {0, 1}] : n \in 0..MaxTipLen}

\* a store with nothing in it, or with one value under the tip-height key,
\* bare or in the namespace "foo"
TipStores ==
    {<<>>} \cup
    {[k \in {key} |-> v] :
        key \in {TIP_HEIGHT_KEY, <<"foo", "://">> \o TIP_HEIGHT_KEY},
        v \in TipValues}

\* either query_height on any such store, for any start block
InitTip ==
    /\ store \in TipStores
    /\ start_block \in 0..MaxStart
    /\ LABEL \in {None, set_label(<<"foo">>)}
    /\ adapter = [c \in Clones |->
                    [pc |-> "none", conn |-> 0, height |-> 0, op |-> NoOp,
                     ret |-> NoRet, tries |-> 0]]
    /\ conns = 0
    /\ failsLeft = 0
    /\ model = <<>>
    /\ count = 0
    /\ chain = [h \in 0..MaxHeight |-> 0]
    /\ reorgs = 0
    /\ pc = "query_height"
    /\ cause = "none"
    /\ restarts = 0
    /\ i = 0
    /\ best = 0
    /\ HEIGHT = 0
    /\ tip = 0
    /\ rbest = 0
    /\ blockhash = <<>>
    /\ ctx = [block |-> <<>>, height |-> 0]
    /\ attempt = 1
    /\ batch = <<>>
    /\ wres = "none"
    /\ rres = "none"
    /\ hist = NoHist
    /\ tipRead = NoRead

NextTip ==
    \/ query_height
    \/ query_height_lib

SpecTip == InitTip /\ [][NextTip]_vars
\* ----------------------------------------------- properties of the sync loop
InIteration ==
    pc \in {"pull_hash", "pull_record", "pull_get", "run", "write", "w_query",
            "w_reset", "run_ret", "advance"}

\* C1: a crash between the staging of the engine's mutations and the return
\* of write leaves either neither the batch nor the new tip height in the
\* store, or both.
C1_AtomicPairing ==
    (/\ pc = "dead"
     /\ hist.inWrite
     /\ ~hist.wHadBatch
     /\ hist.wNewTip # hist.wTipBefore)
    => \/ /\ StoreGet(store, TIP_HEIGHT_KEY) = hist.wTipBefore
          /\ ~BatchPresent(store, batch)
       \/ /\ StoreGet(store, TIP_HEIGHT_KEY) = hist.wNewTip
          /\ BatchPresent(store, batch)

\* C2: once a commit has succeeded, the persisted tip height is the height of
\* the last committed block plus one.
C2_TipIsNextHeight ==
    hist.lastCommitted # None
    => PersistedTip(store) = Some(hist.lastCommitted[1] + 1)

\* C3: an iteration that indexes successfully at the first attempt, issues a
\* batch write and sees no hash mismatch ends with the persisted tip height
\* one above the tip height it started from.
C3_TipStepsByOne ==
    (/\ pc = "advance"
     /\ hist.writeIssued
     /\ hist.fails = 0
     /\ ~hist.mismatch)
    => PersistedTip(store) = Some(hist.tipAtStart[1] + 1)

\* C7: the heights handed to the engine never skip: each is one above the
\* height handed over before it, or at most equal to it.
C7_NoSkippedHeight ==
    [][(hist'.runs = hist.runs + 1 /\ hist.last # None)
       => \/ hist'.last[1] = hist.last[1] + 1
          \/ hist'.last[1] <= hist.last[1]]_vars

\* C9: when the ledger has no record for a height the resolver compares, the
\* iteration fails hard: no block is fetched or handed to the engine in it.
C9_GapFailsIteration == hist.rstat = "err_gap" => ~InIteration

\* C10: at most two runs of the engine per iteration; a failed first run is
\* followed by exactly one refresh_memory and one more run; a success lets the
\* loop advance; a failed second run ends the process with the height counter
\* as it was; no reset without a failed run before it.
C10_StateOk ==
    /\ hist.runs <= 2
    /\ hist.fails <= hist.runs
    /\ hist.resets <= 1
    /\ hist.resets <= hist.fails
    /\ pc = "run" => /\ hist.runs = attempt - 1
                     /\ hist.fails = hist.runs
                     /\ hist.resets = hist.fails
    /\ pc = "advance" => hist.runs = hist.fails + 1
    /\ cause = "panic_engine" => /\ hist.runs = 2
                                 /\ hist.fails = 2
                                 /\ hist.resets = 1

C10_StepOk ==
    /\ (pc = "run_ret" /\ rres = "err" /\ attempt = 2 /\ pc' # pc)
       => (pc' = "dead" /\ i' = i /\ HEIGHT' = HEIGHT)
    /\ (pc = "run_ret" /\ rres = "ok" /\ pc' \notin {pc, "dead"})
       => pc' = "advance"
    /\ (i' # i /\ pc # "query_height")
       => (pc = "advance" /\ i' = i + 1 /\ HEIGHT' = i + 1)

\* C10: the failure policy holds in every state and at every step of run()
C10_FailurePolicy == []C10_StateOk /\ [][C10_StepOk]_vars

C10_Witness ==
    /\ pc = "advance"
    /\ hist.runs = 2
    /\ hist.fails = 1
    /\ hist.resets = 1


\* C18: the height-to-hash record of the target height is written, with the
\* hash the remote chain returned for that height in this iteration, before
\* the engine is invoked; at every engine invocation the ledger holds that
\* hash for the invocation's height and the block passed is the one fetched
\* for it; the hash is fetched only after the block count was seen to be at
\* least the target height.
Fetched == pc \in {"pull_get", "run", "write", "w_query", "w_reset", "run_ret"}

C18_StateOk ==
    /\ Fetched => /\ blockhash # <<>>
                  /\ get_blockhash(store, best) = Some(blockhash)
    /\ pc = "run"
       => /\ ctx.height = best
          /\ get_blockhash(store, ctx.height) = Some(blockhash)
          /\ ctx.block = hex_decode(RemoteBlockHex(hex_encode(blockhash)))

C18_StepOk ==
    /\ (pc' = "pull_hash" /\ pc # "pull_hash")
       => (pc = "pull_block" /\ best <= count /\ best' = best)
    /\ (pc' = "pull_record" /\ pc # "pull_record")
       => /\ pc = "pull_hash"
          /\ best' = best
          /\ blockhash' = hex_decode(RemoteHashHex(best))
    /\ (pc' = "pull_get" /\ pc # "pull_get")
       => /\ pc = "pull_record"
          /\ blockhash' = blockhash
          /\ get_blockhash(store', best) = Some(blockhash)
    /\ (pc' = "run" /\ pc # "run") => pc \in {"pull_get", "run_ret"}
    /\ (Fetched /\ pc' # "dead")
       => (blockhash' = blockhash /\ best' = best)
    /\ hist'.runs = hist.runs + 1 => pc = "run"

C18_HashBeforeIndexing == []C18_StateOk /\ [][C18_StepOk]_vars

\* the second run of an iteration finds the record of its height in place
C18_Witness ==
    /\ pc = "run"
    /\ attempt = 2
    /\ ctx.height = 1
    /\ get_blockhash(store, 1) = Some(blockhash)
    /\ blockhash = fetch_blockhash(1)
Recorded(h) == get_blockhash(store, h) # None

Matches(h) == get_blockhash(store, h) = Some(fetch_blockhash(h))

\* the resolver has returned to run() and every call to the chain succeeded
ResolveReturned ==
    /\ pc = "pull_block"
    /\ hist.rstat \in {"fast", "walk_ok", "err_gap"}

\* C5: for a candidate in the checked region (c >= T - 6 over the integers)
\* with every height of the ledger recorded, resolve returns the highest
\* height at or below the candidate whose recorded hash equals the remote one.
C5_HighestMatch ==
    (/\ i >= count - ReorgDepth
     /\ i <= count
     /\ \A h \in 0..i : Recorded(h)
     /\ \E h \in 0..i : Matches(h))
    => (ResolveReturned
        => /\ hist.rstat # "err_gap"
           /\ best <= i
           /\ Matches(best)
           /\ \A h \in (best + 1)..i : ~Matches(h))

\* C6: below the checked region (c < T - 6) resolve returns the candidate
\* unchanged, with no ledger lookup and no getblockhash call.
C6_FastPath ==
    (/\ pc \in {"walk", "pull_block"}
     /\ hist.rstat # "err_rpc"
     /\ i < tip - ReorgDepth)
    => /\ pc = "pull_block"
       /\ hist.rstat = "fast"
       /\ best = i
       /\ hist.lookups = 0
       /\ hist.rcalls = 0

C6_Witness ==
    /\ pc = "pull_block"
    /\ hist.rstat = "fast"
    /\ i >= 1
    /\ i < tip - ReorgDepth


\* C14: the resolver takes the fast path exactly when c < T - 6 over the
\* integers, walks back otherwise, and the subtraction neither wraps nor
\* aborts.
C14_Threshold ==
    [][(pc = "resolve" /\ pc' # "resolve" /\ hist'.rstat # "err_rpc")
          => /\ pc' # "dead"
             /\ hist'.rstat = "fast" <=> i < count - ReorgDepth]_vars

\* C19: with every height of the ledger recorded, resolve returns after at
\* most c + 1 comparisons a height in 0..c, and 0 when no height in 1..c
\* matches; it does not end otherwise.
C19_TerminatesWithin ==
    (\A h \in 0..i : Recorded(h))
    => /\ cause # "panic_overflow"
       /\ hist.lookups <= i + 1
       /\ ResolveReturned
            => /\ hist.rstat # "err_gap"
               /\ best \in 0..i
               /\ (\A h \in 1..i : ~Matches(h)) => best = 0
\* ------------------------------------------------ properties of the adapter
\* clone c returns from the call it was making
Returns(c, name) ==
    /\ adapter[c].pc = "locked"
    /\ adapter[c].op.name = name
    /\ adapter'[c].pc = "idle"

\* the key L://k of the namespace L
Namespaced(k) == LABEL[1] \o k

\* C4: with a label L set, put(k, v) stores v under L://k and leaves the bare
\* key k alone, and a later get(k) through the adapter returns v.
C4_LabelRoundTrip ==
    [][\A c \in Clones :
          /\ (LABEL # None /\ Returns(c, "put"))
                => store' = StoreSet(store, Namespaced(adapter[c].op.key),
                                     adapter[c].op.value)
          /\ (LABEL # None /\ Returns(c, "get")
                /\ adapter[c].op.key \in DOMAIN model
                /\ model[adapter[c].op.key].via = "put")
                => adapter'[c].ret =
                      [kind |-> "ok",
                       val |-> Some(model[adapter[c].op.key].value)]]_vars

\* C8: get and put retry after every store failure and never hand an error to
\* the caller: whatever the number of failed attempts, get returns the value
\* stored under the key it reads (or absence) and changes nothing, put leaves
\* its value stored under the key it writes and changes nothing else, and a
\* failed attempt or a reconnect changes nothing in the store.
C8_NoError == \A c \in Clones : adapter[c].ret.kind # "err"

C8_Step ==
    \A c \in Clones :
        /\ Returns(c, "get")
              => /\ adapter'[c].ret =
                       [kind |-> "ok",
                        val |-> StoreGet(store, to_redis_args(adapter[c].op.key))]
                 /\ store' = store
        /\ Returns(c, "put")
              => /\ adapter'[c].ret.kind = "ok"
                 /\ store' = StoreSet(store, to_redis_key(adapter[c].op.key),
                                      adapter[c].op.value)
        /\ (adapter[c].op.name \in {"get", "put"} /\ adapter'[c].pc # "idle"
              /\ adapter'[c] # adapter[c])
              => store' = store

\* C8: no error reaches a caller, and every step of get and put is as above
C8_RetryUntilSuccess == []C8_NoError /\ [][C8_Step]_vars

C8_Witness ==
    \E c \in Clones :
        /\ adapter[c].pc = "idle"
        /\ adapter[c].op.name = "get"
        /\ adapter[c].ret.kind = "ok"
        /\ adapter[c].ret.val # None
        /\ adapter[c].tries > 0
        /\ failsLeft = 0

\* the clones that exist
Live == {c \in Clones : adapter[c].pc # "none"}

\* C12: all clones of an adapter refer to one and the same connection handle
\* and lock, also after a reconnect by one of them.
C12_SharedConnection ==
    \A c \in Live, d \in Live : adapter[c].conn = adapter[d].conn

\* C16: with a label set, get, put and delete address the storage key L://k
\* of the raw key k: get returns what is stored there, put stores there,
\* delete removes what is there.
C16_SameNamespace ==
    [][\A c \in Clones :
          LABEL # None =>
             /\ Returns(c, "get")
                   => adapter'[c].ret.val =
                         StoreGet(store, Namespaced(adapter[c].op.key))
             /\ Returns(c, "put")
                   => StoreGet(store', Namespaced(adapter[c].op.key)) =
                         Some(adapter[c].op.value)
             /\ Returns(c, "delete")
                   => StoreGet(store', Namespaced(adapter[c].op.key)) = None]_vars

\* C20: at most one raw store operation is in progress at any instant across
\* all clones, also after one of them has reconnected.
C20_MutualExclusion ==
    Cardinality({c \in Clones : adapter[c].pc = "locked"}) <= 1

\* clone c is inside a call
InCall(c) == adapter[c].pc \in {"try", "locked", "reset"}

\* C13: a failed attempt is followed by the discard of the connection and a
\* reconnect before the same operation is attempted again, and a call returns
\* only from an attempt that succeeded.
C13_Step ==
    \A c \in Clones :
        /\ (adapter[c].pc = "locked" /\ adapter'[c].pc \notin {"locked", "idle"})
              => (adapter'[c].pc = "reset" /\ adapter'[c].op = adapter[c].op)
        /\ (adapter[c].pc = "reset" /\ adapter'[c].pc # "reset")
              => /\ adapter'[c].pc = "try"
                 /\ adapter'[c].conn # adapter[c].conn
                 /\ adapter'[c].op = adapter[c].op
        /\ (InCall(c) /\ adapter'[c].pc = "idle")
              => (adapter[c].pc = "locked" /\ adapter'[c].ret.kind = "ok")
        /\ adapter[c].pc = "try" => adapter'[c].pc \in {"try", "locked"}

\* C13: once the store has stopped failing, every call to get, put, delete
\* and write returns success in the end, and every step of a call is as above
C13_StoreLiveness ==
    /\ \A c \in Clones :
          InCall(c) ~> (adapter[c].pc = "idle" /\ adapter[c].ret.kind = "ok")
    /\ [][C13_Step]_vars

C13_Witness ==
    /\ adapter["loop"].pc = "idle"
    /\ adapter["loop"].op.name = "delete"
    /\ adapter["loop"].ret.kind = "ok"
    /\ adapter["loop"].tries > 0
    /\ adapter["loop"].conn > 1
    /\ adapter["ledger"].pc = "locked"

\* the storage key of a raw key: in the namespace when a label is set
StorageKey(k) == IF LABEL = None THEN k ELSE LABEL[1] \o k

\* the pipeline a write is to submit: every put of the caller's batch, then
\* the tip height, the adapter's height counter plus one
RECURSIVE WholeBatch(_)
WholeBatch(b) ==
    IF b = <<>> THEN <<>>
    ELSE <<<<StorageKey(b[1][1]), b[1][2]>>>> \o WholeBatch(Tail(b))

Submitted(c) ==
    WholeBatch(adapter[c].op.value) \o
    <<<<StorageKey(TIP_HEIGHT_KEY), to_le_bytes(adapter[c].height + 1)>>>>

\* C15: every attempt of write submits the whole batch with the one tip-height
\* put; an attempt that fails leaves at most some first part of it applied;
\* when write returns the store is the one a single successful submission
\* leaves: every put of the batch, and the height counter plus one as the tip.
C15_Step ==
    \A c \in Clones :
        /\ (adapter[c].op.name = "write" /\ InCall(c))
              => adapter[c].op.pipe = Submitted(c)
        /\ (adapter[c].op.name = "write" /\ adapter[c].pc = "locked"
              /\ adapter'[c].pc = "reset")
              => \E n \in 0..Len(Submitted(c)) :
                    store' = StorePipe(store, SubSeq(Submitted(c), 1, n))
        /\ Returns(c, "write")
              => /\ adapter'[c].ret.kind = "ok"
                 /\ store' = StorePipe(store, Submitted(c))
                 /\ \A k \in 1..Len(Submitted(c)) :
                       StoreGet(store', Submitted(c)[k][1]) = Some(Submitted(c)[k][2])
                 /\ adapter'[c].height = adapter[c].height

\* C15: every step of a write is such a step
C15_WholeBatchRetried == [][C15_Step]_vars

C15_Witness ==
    \E c \in Clones :
        /\ adapter[c].pc = "idle"
        /\ adapter[c].op.name = "write"
        /\ adapter[c].ret.kind = "ok"
        /\ adapter[c].tries > 0
        /\ LABEL # None
        /\ StoreGet(store, <<"foo", "://", "bar">>) = Some(<<2>>)
        /\ StoreGet(store, <<"foo", "://">> \o TIP_HEIGHT_KEY) = Some(<<1, 0, 0, 0>>)


\* clone d holds the lock clone c is waiting for
Blocks(d, c) ==
    /\ d # c
    /\ adapter[c].pc = "try"
    /\ adapter[d].pc = "locked"
    /\ adapter[d].conn = adapter[c].conn

\* C21: the lock is held only for the store call of one attempt and never
\* while the clone backs off or reconnects: a clone waiting for the lock can
\* take it unless another clone is inside its store call on that connection,
\* and that clone can finish its call; so no state is a deadlock on the lock.
C21_StateOk ==
    \A c \in Clones :
        /\ (adapter[c].pc = "try" /\ \A d \in Clones : ~Blocks(d, c))
              => ENABLED LockBy(c)
        /\ adapter[c].pc = "locked" => ENABLED AttemptBy(c)
        /\ adapter[c].pc = "reset" => ENABLED ResetBy(c)

C21_Step ==
    \A c \in Clones :
        /\ (adapter'[c].pc = "locked" /\ adapter[c].pc # "locked")
              => adapter[c].pc = "try"
        /\ (adapter[c].pc = "locked" /\ adapter'[c] # adapter[c])
              => adapter'[c].pc \in {"idle", "reset"}
        /\ (adapter'[c].pc = "reset" /\ adapter[c].pc # "reset")
              => adapter[c].pc = "locked"
        /\ (adapter[c].pc = "reset" /\ adapter'[c] # adapter[c])
              => adapter'[c].pc = "try"

C21_NoLockInBackoff == []C21_StateOk /\ [][C21_Step]_vars

\* a clone is inside its store call on the very connection another clone,
\* backing off after a failure, has not yet replaced
C21_Witness ==
    /\ adapter["loop"].pc = "reset"
    /\ adapter["ledger"].pc = "locked"
    /\ adapter["ledger"].conn = adapter["loop"].conn
\* --------------------------------------- properties of the tip-height read
\* the record a tip-height read addresses: main.rs reads the bare key, lib.rs
\* the key in the namespace
TipRecord(by) ==
    GetBytes(store, IF by = "lib" /\ LABEL # None
                    THEN LABEL[1] \o TIP_HEIGHT_KEY ELSE TIP_HEIGHT_KEY)

\* four bytes as an unsigned number, least significant byte first
LittleEndian(b) == b[1] + 256 * (b[2] + 256 * (b[3] + 256 * b[4]))

\* the reader whose tip-height read ends in this step
Reader ==
    IF pc' = "dead" THEN (IF cause' = "panic_tip" THEN "main" ELSE "lib")
    ELSE tipRead'.by

TipReadEnds == pc = "query_height" /\ pc' # "query_height"

\* C11: the tip-height read returns the default when the record is absent or
\* empty, the little-endian value of a record of four bytes, and ends the
\* process on a record of any other length (the read itself succeeding).
C11_Step ==
    TipReadEnds =>
        LET v == TipRecord(Reader) IN
        /\ Len(v) = 0 => (pc' # "dead" /\ tipRead'.val = start_block)
        /\ (Len(v) = 4 /\ ~tipRead'.err)
              => (pc' # "dead" /\ tipRead'.val = LittleEndian(v))
        /\ (Len(v) \notin {0, 4} /\ ~tipRead'.err) => pc' = "dead"
        /\ (Reader = "main" /\ pc' # "dead") => i' = tipRead'.val

\* C11: every step of a tip-height read is such a step
C11_TipDefault == [][C11_Step]_vars

C11_Witness ==
    /\ pc = "resolve"
    /\ tipRead.by = "main"
    /\ ~tipRead.err
    /\ store = [k \in {TIP_HEIGHT_KEY} |-> <<0, 1, 0, 0>>]
    /\ start_block = 1
    /\ i = 256

\* C17: with a tip height persisted (a record of four bytes) the tip-height
\* read returns that height, whatever the default and also when the store
\* fails during the read.
C17_PersistedTipWins ==
    [][(TipReadEnds /\ Len(TipRecord(Reader)) = 4)
          => (pc' # "dead" /\ tipRead'.val = LittleEndian(TipRecord(Reader)))]_vars

====
